---- MODULE Spec2Model ----
(***************************************************************************)
(* gocyclolib: cyclomatic complexity of Go functions, with a process-wide  *)
(* cache of the last result set keyed by the two exclusion flags.          *)
(*                                                                         *)
(* Paths are strings, the file system is a fixed finite tree, a syntax     *)
(* tree is a record [kind, op, children].  The two expressions             *)
(* *skipGodepsGlobal / *skipVendorGlobal of the source are read as the     *)
(* value of the global flag.                                               *)
(***************************************************************************)
EXTENDS Integers, Sequences, FiniteSets, TLC

VARIABLES
    skipGodepsGlobal,   \* gocyclolib.go:16
    skipVendorGlobal,   \* gocyclolib.go:17
    statsGlobal,        \* gocyclolib.go:18 (nil is the empty sequence)
    exited,             \* log.Fatal has ended the process
    lastCall,           \* the arguments of the last call of Average/GetStats
    ret,                \* what the last call returned to its caller
    analyzed,           \* whether the last call ran analyze
    walked,             \* the walkFn invocations of the last call
    parsed,             \* the parser.ParseFile invocations of the last call
    fn,                 \* scorer: the function declaration given to complexity
    score               \* scorer: the value complexity returned

vars == <<skipGodepsGlobal, skipVendorGlobal, statsGlobal, exited, lastCall,
          ret, analyzed, walked, parsed, fn, score>>

cacheVars == <<skipGodepsGlobal, skipVendorGlobal, statsGlobal, exited,
               lastCall, ret, analyzed, walked, parsed>>

-----------------------------------------------------------------------------
(* Strings *)

HasPrefix(s, prefix) ==
    Len(prefix) <= Len(s) /\ SubSeq(s, 1, Len(prefix)) = prefix

HasSuffix(s, suffix) ==
    Len(suffix) <= Len(s) /\ SubSeq(s, Len(s) - Len(suffix) + 1, Len(s)) = suffix

PathSeparator == "/"

\* strings.Join([]string{a, b}, sep)
JoinSep(a, b) == a \o PathSeparator \o b

\* filepath.Join(dir, name) as filepath.Walk uses it: the result is cleaned,
\* so the entries of "." carry no "./".
FilepathJoin(dir, name) == IF dir = "." THEN name ELSE dir \o PathSeparator \o name

-----------------------------------------------------------------------------
(* Syntax trees *)

Node(kind, op, children) == [kind |-> kind, op |-> op, children |-> children]

Ident == Node("Ident", "", <<>>)
Binary(op, x, y) == Node("BinaryExpr", op, <<x, y>>)
Block(stmts) == Node("BlockStmt", "", stmts)
Call(fun) == Node("CallExpr", "", <<fun>>)

\* f()
SCall == Node("ExprStmt", "", <<Call(Ident)>>)
\* if a { }
SIf == Node("IfStmt", "", <<Ident, Block(<<>>)>>)
\* if a && b || c { }
SIfLogic ==
    Node("IfStmt", "", <<Binary("||", Binary("&&", Ident, Ident), Ident), Block(<<>>)>>)
\* for { }
SFor == Node("ForStmt", "", <<Block(<<>>)>>)
\* for range c { f() }
SRange == Node("RangeStmt", "", <<Ident, Block(<<SCall>>)>>)
\* switch a { case b: default: }
SSwitch ==
    Node("SwitchStmt", "",
         <<Ident, Block(<<Node("CaseClause", "", <<Ident>>),
                          Node("CaseClause", "", <<>>)>>)>>)
\* select { case <-c: }
SSelect ==
    Node("SelectStmt", "",
         <<Block(<<Node("CommClause", "",
                        <<Node("ExprStmt", "", <<Node("UnaryExpr", "<-", <<Ident>>)>>)>>)>>)>>)
\* x = a + b
SAssignAdd == Node("AssignStmt", "=", <<Ident, Binary("+", Ident, Ident)>>)
\* x = d && e
SAssignAnd == Node("AssignStmt", "=", <<Ident, Binary("&&", Ident, Ident)>>)
\* go func() { if a { } }()
SGoLit ==
    Node("GoStmt", "",
         <<Call(Node("FuncLit", "", <<Node("FuncType", "", <<>>), Block(<<SIf>>)>>))>>)
\* if a { } else if b { for range c { } }
SIfElse ==
    Node("IfStmt", "",
         <<Ident, Block(<<>>),
           Node("IfStmt", "",
                <<Ident, Block(<<Node("RangeStmt", "", <<Ident, Block(<<>>)>>)>>)>>)>>)

StmtPool == <<SCall, SIf, SIfLogic, SFor, SRange, SSwitch, SSelect, SAssignAdd,
              SAssignAnd, SGoLit, SIfElse>>

\* Receiver type expressions
TIdent(name) == [kind |-> "Ident", op |-> "", children |-> <<>>, Name |-> name]
TStar(x) == [kind |-> "StarExpr", op |-> "", children |-> <<x>>, Name |-> ""]
TArray(x) == [kind |-> "ArrayType", op |-> "", children |-> <<x>>, Name |-> ""]

\* A function declaration: recv is the list of receiver field types.
FuncDecl(name, recv, line, stmts) ==
    [kind |-> "FuncDecl", op |-> "", Name |-> name, Recv |-> recv, Line |-> line,
     children |-> (IF recv = <<>> THEN <<>> ELSE <<Node("FieldList", "", recv)>>)
                  \o <<Ident, Node("FuncType", "", <<>>), Block(stmts)>>]

GenDecl == Node("GenDecl", "", <<>>)

-----------------------------------------------------------------------------
(* Scorer *)

\* Visit counting every binary expression, whatever its operator
Visit_everyBinary(c, n) ==
    CASE n.kind \in {"FuncDecl", "IfStmt", "ForStmt", "RangeStmt", "CaseClause", "CommClause"}
           -> c + 1
      [] n.kind = "BinaryExpr" -> c + 1
      [] OTHER -> c

\* complexityVisitor.Visit: c is v.Complexity before the visit, the result
\* is v.Complexity after it.
Visit(c, n) ==
    CASE n.kind \in {"FuncDecl", "IfStmt", "ForStmt", "RangeStmt", "CaseClause", "CommClause"}
           -> c + 1
      [] n.kind = "BinaryExpr"
           -> IF n.op = "&&" \/ n.op = "||" THEN c + 1 ELSE c
      [] OTHER -> c

RECURSIVE astWalk(_, _), astWalkList(_, _)
\* ast.Walk(v, node): visit the node, then every child in order.
astWalk(c, n) == astWalkList(Visit(c, n), n.children)

astWalkList(c, list) ==
    IF list = <<>> THEN c ELSE astWalkList(astWalk(c, Head(list)), Tail(list))

complexity(f) == astWalk(0, f)

RECURSIVE recvString(_)
recvString(recv) ==
    CASE recv.kind = "Ident" -> recv.Name
      [] recv.kind = "StarExpr" -> "*" \o recvString(recv.children[1])
      [] OTHER -> "BADRECV"

funcName(f) ==
    IF f.Recv # <<>>
    THEN "(" \o recvString(f.Recv[1]) \o ")." \o f.Name
    ELSE f.Name

-----------------------------------------------------------------------------
(* The file system and the parser *)

File(pkg, decls) ==
    [kind |-> "file", lstatErr |-> FALSE, readErr |-> FALSE, names |-> <<>>,
     src |-> [err |-> FALSE, Name |-> pkg, Decls |-> decls]]

\* A file the parser rejects.
BadFile ==
    [kind |-> "file", lstatErr |-> FALSE, readErr |-> FALSE, names |-> <<>>,
     src |-> [err |-> TRUE, Name |-> "", Decls |-> <<>>]]

\* An entry whose lstat fails.
Gone == [BadFile EXCEPT !.lstatErr = TRUE]

\* The names of a directory are sorted, as ReadDir returns them.
Dir(names) ==
    [kind |-> "dir", lstatErr |-> FALSE, readErr |-> FALSE, names |-> names,
     src |-> [err |-> TRUE, Name |-> "", Decls |-> <<>>]]

\* A directory that cannot be read.
LockedDir == [Dir(<<>>) EXCEPT !.readErr = TRUE]

FS ==
    "." :> Dir(<<"Godeps", "a.go", "doc.go", "lib", "vendor", "vendor.go">>)
 @@ "Godeps" :> Dir(<<"dep.go", "old.txt">>)
 @@ "Godeps/dep.go" :> File("dep", <<FuncDecl("Dep", <<>>, 3, <<SRange>>)>>)
 @@ "Godeps/old.txt" :> File("dep", <<FuncDecl("Old", <<>>, 3, <<>>)>>)
 @@ "a.go" :> File("main",
                   <<GenDecl,
                     FuncDecl("helper", <<>>, 5, <<SCall>>),
                     FuncDecl("main", <<>>, 9, <<SIf, SFor>>),
                     FuncDecl("Run", <<TStar(TIdent("Server"))>>, 17, <<SSwitch>>)>>)
 @@ "doc.go" :> File("main", <<GenDecl>>)
 @@ "lib" :> Dir(<<"Godeps", "m.go", "notes.txt", "vendorx">>)
 @@ "lib/Godeps" :> Dir(<<"g.go">>)
 @@ "lib/Godeps/g.go" :> File("g", <<FuncDecl("G", <<TIdent("T")>>, 3, <<SSelect>>)>>)
 @@ "lib/m.go" :> File("lib",
                       <<FuncDecl("M", <<>>, 3, <<SGoLit, SAssignAdd>>),
                         FuncDecl("Sum", <<TArray(TIdent("int"))>>, 9, <<SIfElse, SAssignAnd>>)>>)
 @@ "lib/notes.txt" :> BadFile
 @@ "lib/vendorx" :> Dir(<<"x.go">>)
 @@ "lib/vendorx/x.go" :> File("x", <<FuncDecl("X", <<>>, 3, <<SFor, SFor>>)>>)
 @@ "vendor" :> Dir(<<"bad.go">>)
 @@ "vendor/bad.go" :> BadFile
 @@ "vendor.go" :> File("main", <<FuncDecl("vendorInit", <<>>, 3, <<SIfLogic>>)>>)
 @@ "../w" :> Dir(<<"p.go", "q", "r.go">>)
 @@ "../w/p.go" :> File("w", <<FuncDecl("P", <<>>, 3, <<>>)>>)
 @@ "../w/q" :> LockedDir
 @@ "../w/r.go" :> File("w", <<FuncDecl("R", <<>>, 3, <<SIf>>)>>)
 @@ "../v" :> Dir(<<"gone.go", "t.go">>)
 @@ "../v/gone.go" :> Gone
 @@ "../v/t.go" :> File("v", <<FuncDecl("T", <<>>, 3, <<SIf>>)>>)

\* os.Lstat / os.Stat: whether the call fails
StatFails(path) == path \notin DOMAIN FS \/ FS[path].lstatErr

\* isDir: err == nil && fi.IsDir()
isDir(filename) == ~StatFails(filename) /\ FS[filename].kind = "dir"

\* parser.ParseFile(fset, fname, nil, 0)
ParseFile(fname) ==
    IF StatFails(fname) \/ FS[fname].kind # "file"
    THEN [err |-> TRUE, Name |-> "", Decls |-> <<>>]
    ELSE FS[fname].src

-----------------------------------------------------------------------------
(* Unit extractor *)

stat(pkg, name, c, file, line) ==
    [PkgName |-> pkg, FuncName |-> name, Complexity |-> c,
     Pos |-> [Filename |-> file, Line |-> line]]

RECURSIVE buildStatsFrom(_, _, _, _)
buildStatsFrom(decls, pkg, fname, stats) ==
    IF decls = <<>> THEN stats
    ELSE LET decl == Head(decls) IN
         buildStatsFrom(Tail(decls), pkg, fname,
             IF decl.kind = "FuncDecl"
             THEN Append(stats, stat(pkg, funcName(decl), complexity(decl), fname, decl.Line))
             ELSE stats)

\* buildStats(f, fset, stats): f is the parsed file of fname
buildStats(f, fname, stats) == buildStatsFrom(f.Decls, f.Name, fname, stats)

-----------------------------------------------------------------------------
(* Path walker and exclusion policy *)

\* The state of one run of analyze: the stats slice built so far, whether
\* log.Fatal has ended the process, and the calls made of walkFn and of
\* parser.ParseFile.
Run0 == [stats |-> <<>>, fatal |-> FALSE, walked |-> <<>>, parsed |-> <<>>]

isAnalyzeTargetGodeps(dirname, path, skipGodeps) ==
    LET prefix == IF dirname = "." THEN "Godeps" ELSE JoinSep(dirname, "Godeps") IN
    IF HasPrefix(path, prefix) /\ skipGodeps
    THEN FALSE
    ELSE HasSuffix(path, ".go")

\* isAnalyzeTargetVendor excluding the vendor prefix whether or not the flag is set
isAnalyzeTargetVendor_anyFlag(dirname, path, skipVendor) ==
    LET prefix == IF dirname = "." THEN "vendor" ELSE JoinSep(dirname, "vendor") IN
    IF HasPrefix(path, prefix)
    THEN FALSE
    ELSE HasSuffix(path, ".go")

isAnalyzeTargetVendor(dirname, path, skipVendor) ==
    LET prefix == IF dirname = "." THEN "vendor" ELSE JoinSep(dirname, "vendor") IN
    IF HasPrefix(path, prefix) /\ skipVendor
    THEN FALSE
    ELSE HasSuffix(path, ".go")

\* analyzeFile skipping a file that does not parse
analyzeFile_skipBad(root, fname, run) ==
    LET f == ParseFile(fname)
        called == [run EXCEPT !.parsed = Append(@, [root |-> root, path |-> fname])]
    IN  IF f.err
        THEN called
        ELSE [called EXCEPT !.stats = buildStats(f, fname, run.stats)]

\* analyzeFile(fname, stats); root is the root of analyze the file came from
analyzeFile(root, fname, run) ==
    LET f == ParseFile(fname)
        called == [run EXCEPT !.parsed = Append(@, [root |-> root, path |-> fname])]
    IN  IF f.err
        THEN [called EXCEPT !.fatal = TRUE]
        ELSE [called EXCEPT !.stats = buildStats(f, fname, run.stats)]

\* The function literal analyzeDir hands to filepath.Walk: the run after the
\* call, and the error it returns.
walkFn(dirname, path, infoIsDir, err, run, skipGodeps, skipVendor) ==
    LET called == [run EXCEPT !.walked = Append(@, [root |-> dirname, path |-> path,
                                                     isDir |-> infoIsDir, err |-> err])]
    IN  [run |-> IF /\ ~err
                    /\ ~infoIsDir
                    /\ isAnalyzeTargetGodeps(dirname, path, skipGodeps)
                    /\ isAnalyzeTargetVendor(dirname, path, skipVendor)
                 THEN analyzeFile(dirname, path, called)
                 ELSE called,
         err |-> err]

RECURSIVE walk(_, _, _, _, _), walkNames(_, _, _, _, _, _)
\* filepath.walk on an entry whose lstat succeeded
walk(dirname, path, run, skipGodeps, skipVendor) ==
    IF FS[path].kind # "dir"
    THEN walkFn(dirname, path, FALSE, FALSE, run, skipGodeps, skipVendor)
    ELSE LET r == walkFn(dirname, path, TRUE, FS[path].readErr, run, skipGodeps, skipVendor) IN
         IF FS[path].readErr \/ r.err \/ r.run.fatal
         THEN r
         ELSE walkNames(dirname, path, FS[path].names, r.run, skipGodeps, skipVendor)

walkNames(dirname, path, names, run, skipGodeps, skipVendor) ==
    IF names = <<>> THEN [run |-> run, err |-> FALSE]
    ELSE LET filename == FilepathJoin(path, Head(names))
             r == IF StatFails(filename)
                  THEN walkFn(dirname, filename, FALSE, TRUE, run, skipGodeps, skipVendor)
                  ELSE walk(dirname, filename, run, skipGodeps, skipVendor)
         IN  IF r.err \/ r.run.fatal
             THEN r
             ELSE walkNames(dirname, path, Tail(names), r.run, skipGodeps, skipVendor)

\* filepath.Walk(root, walkFn)
filepathWalk(root, run, skipGodeps, skipVendor) ==
    IF StatFails(root)
    THEN walkFn(root, root, FALSE, TRUE, run, skipGodeps, skipVendor)
    ELSE walk(root, root, run, skipGodeps, skipVendor)

\* analyzeDir drops the error filepath.Walk returns.
analyzeDir(dirname, run, skipGodeps, skipVendor) ==
    filepathWalk(dirname, run, skipGodeps, skipVendor).run

\* The roots and the lists of roots the callers pass.
Roots == {".", "lib", "../w", "../v", "a.go", "doc.go", "vendor.go",
          "Godeps/old.txt", "vendor/bad.go", "nope.go"}

PathLists ==
    {<<r>> : r \in Roots}
    \cup {<<"a.go", "vendor.go">>, <<"../w", "a.go">>, <<"../v", "vendor.go">>,
          <<"doc.go", "doc.go">>, <<"vendor/bad.go", "a.go">>,
          <<"a.go", "vendor/bad.go">>, <<"a.go", "lib">>, <<".", "a.go">>}

\* analyzeRoot putting a file root through the checks of a directory walk
analyzeRoot_filtered(path, run, skipGodeps, skipVendor) ==
    IF isDir(path)
    THEN analyzeDir(path, run, skipGodeps, skipVendor)
    ELSE IF /\ isAnalyzeTargetGodeps(".", path, skipGodeps)
            /\ isAnalyzeTargetVendor(".", path, skipVendor)
         THEN analyzeFile(path, path, run)
         ELSE run

\* the body of the loop of analyze, lines 42-46
analyzeRoot(path, run, skipGodeps, skipVendor) ==
    IF isDir(path)
    THEN analyzeDir(path, run, skipGodeps, skipVendor)
    ELSE analyzeFile(path, path, run)

RECURSIVE analyzeFrom(_, _, _, _)
\* the loop of analyze over the paths left, which ends when log.Fatal has
\* ended the process
analyzeFrom(paths, run, skipGodeps, skipVendor) ==
    IF paths = <<>> \/ run.fatal THEN run
    ELSE analyzeFrom(Tail(paths),
                     analyzeRoot(Head(paths), run, skipGodeps, skipVendor),
                     skipGodeps, skipVendor)

\* analyze(paths) under each value of the two global flags, tabulated
analyzeTable ==
    [paths \in PathLists, skipGodeps \in BOOLEAN, skipVendor \in BOOLEAN |->
        analyzeFrom(paths, Run0, skipGodeps, skipVendor)]

\* analyze(paths), reading the two global flags
analyze(paths, skipGodeps, skipVendor) == analyzeTable[paths, skipGodeps, skipVendor]

-----------------------------------------------------------------------------
(* Aggregator *)

\* Less with the comparison turned around
Less_ascending(s, i, j) == s[i].Complexity <= s[j].Complexity

\* byComplexity.Less
Less(s, i, j) == s[i].Complexity >= s[j].Complexity

\* byComplexity.Swap
Swap(s, i, j) == [s EXCEPT ![i] = s[j], ![j] = s[i]]

RECURSIVE insertDown(_, _), insertionSort(_, _)
\* the inner loop of insertion sort: for j := i; j > a && Less(j, j-1); j--
insertDown(s, j) ==
    IF j > 1 /\ Less(s, j, j - 1) THEN insertDown(Swap(s, j, j - 1), j - 1) ELSE s

\* for i := a + 1; i < b; i++
insertionSort(s, i) ==
    IF i > Len(s) THEN s ELSE insertionSort(insertDown(s, i), i + 1)

\* sort.Sort(byComplexity(stats)): a slice of at most 12 elements is sorted by
\* insertion sort.
sortSort(s) == insertionSort(s, 2)

RECURSIVE total(_)
total(stats) == IF stats = <<>> THEN 0 ELSE Head(stats).Complexity + total(Tail(stats))

NoRet == [kind |-> "none", stats |-> <<>>, total |-> 0, count |-> 0]

\* average: float64(total) / float64(len(stats)), kept as the two operands
\* (0/0 is NaN)
average(stats) ==
    [kind |-> "average", stats |-> <<>>, total |-> total(stats), count |-> Len(stats)]

\* getStats storing the requested flags only after analyze has run
getStats_staleFlags(paths, skipGodeps, skipVendor) ==
    IF statsGlobal = <<>> \/ skipGodepsGlobal # skipGodeps \/ skipVendorGlobal # skipVendor
    THEN /\ LET run == analyze(paths, skipGodepsGlobal, skipVendorGlobal) IN
            /\ analyzed' = TRUE
            /\ walked' = run.walked
            /\ parsed' = run.parsed
            /\ exited' = run.fatal
            /\ statsGlobal' = IF run.fatal THEN statsGlobal ELSE sortSort(run.stats)
         /\ skipGodepsGlobal' = skipGodeps
         /\ skipVendorGlobal' = skipVendor
    ELSE /\ UNCHANGED <<skipGodepsGlobal, skipVendorGlobal>>
         /\ analyzed' = FALSE
         /\ walked' = <<>>
         /\ parsed' = <<>>
         /\ exited' = FALSE
         /\ statsGlobal' = sortSort(statsGlobal)

\* getStats, lines 21-29
getStats(paths, skipGodeps, skipVendor) ==
    IF statsGlobal = <<>> \/ skipGodepsGlobal # skipGodeps \/ skipVendorGlobal # skipVendor
    THEN /\ skipGodepsGlobal' = skipGodeps
         /\ skipVendorGlobal' = skipVendor
         /\ LET run == analyze(paths, skipGodepsGlobal', skipVendorGlobal') IN
            /\ analyzed' = TRUE
            /\ walked' = run.walked
            /\ parsed' = run.parsed
            /\ exited' = run.fatal
            /\ statsGlobal' = IF run.fatal THEN statsGlobal ELSE sortSort(run.stats)
    ELSE /\ UNCHANGED <<skipGodepsGlobal, skipVendorGlobal>>
         /\ analyzed' = FALSE
         /\ walked' = <<>>
         /\ parsed' = <<>>
         /\ exited' = FALSE
         /\ statsGlobal' = sortSort(statsGlobal)

-----------------------------------------------------------------------------
(* Calls *)

NoCall == [op |-> "none", paths |-> <<>>, skipGodeps |-> FALSE, skipVendor |-> FALSE]

NoFn == FuncDecl("f", <<>>, 1, <<>>)

Init ==
    /\ skipGodepsGlobal = FALSE
    /\ skipVendorGlobal = FALSE
    /\ statsGlobal = <<>>
    /\ exited = FALSE
    /\ lastCall = NoCall
    /\ ret = NoRet
    /\ analyzed = FALSE
    /\ walked = <<>>
    /\ parsed = <<>>
    /\ fn = NoFn
    /\ score = 0

GetStats(paths, skipGodeps, skipVendor) ==
    /\ ~exited
    /\ getStats(paths, skipGodeps, skipVendor)
    /\ lastCall' = [op |-> "GetStats", paths |-> paths,
                    skipGodeps |-> skipGodeps, skipVendor |-> skipVendor]
    /\ ret' = IF exited' THEN NoRet
              ELSE [kind |-> "stats", stats |-> statsGlobal', total |-> 0, count |-> 0]
    /\ UNCHANGED <<fn, score>>

Average(paths, skipGodeps, skipVendor) ==
    /\ ~exited
    /\ getStats(paths, skipGodeps, skipVendor)
    /\ lastCall' = [op |-> "Average", paths |-> paths,
                    skipGodeps |-> skipGodeps, skipVendor |-> skipVendor]
    /\ ret' = IF exited' THEN NoRet ELSE average(statsGlobal')
    /\ UNCHANGED <<fn, score>>

CallGetStats == \E paths \in PathLists, g, v \in BOOLEAN : GetStats(paths, g, v)
CallAverage == \E paths \in PathLists, g, v \in BOOLEAN : Average(paths, g, v)

Next == CallGetStats \/ CallAverage

Spec == Init /\ [][Next]_vars

-----------------------------------------------------------------------------
(* The scorer on its own: complexity applied to one function declaration *)

MaxStmts == 2

Bodies == UNION {[1..n -> 1..Len(StmtPool)] : n \in 0..MaxStmts}

Receivers == {<<>>, <<TStar(TIdent("T"))>>}

FuncDecls ==
    {FuncDecl("f", recv, 1, [i \in 1..Len(b) |-> StmtPool[b[i]]]) :
        b \in Bodies, recv \in Receivers}

InitScore ==
    /\ skipGodepsGlobal = FALSE
    /\ skipVendorGlobal = FALSE
    /\ statsGlobal = <<>>
    /\ exited = FALSE
    /\ lastCall = NoCall
    /\ ret = NoRet
    /\ analyzed = FALSE
    /\ walked = <<>>
    /\ parsed = <<>>
    /\ fn \in FuncDecls
    /\ score = 0

Score ==
    /\ score = 0
    /\ score' = complexity(fn)
    /\ UNCHANGED <<cacheVars, fn>>

NextScore == Score

SpecScore == InitScore /\ [][NextScore]_vars

-----------------------------------------------------------------------------
(* Properties *)

Range(seq) == {seq[i] : i \in DOMAIN seq}

\* The measurements of a sequence with their multiplicities
SeqBag(seq) == [x \in Range(seq) |-> Cardinality({i \in DOMAIN seq : seq[i] = x})]

SortedDesc(stats) ==
    \A i \in 1..(Len(stats) - 1) : stats[i].Complexity >= stats[i + 1].Complexity

\* <root>/<name>, or the bare name when the root is "."
ReservedPrefix(root, name) == IF root = "." THEN name ELSE root \o "/" \o name

\* The files a directory walk of the last call discovered
Discovered == {i \in DOMAIN walked : ~walked[i].err /\ ~walked[i].isDir}

Entry(i) == [root |-> walked[i].root, path |-> walked[i].path]

UnderGodeps(i) == HasPrefix(walked[i].path, ReservedPrefix(walked[i].root, "Godeps"))
UnderVendor(i) == HasPrefix(walked[i].path, ReservedPrefix(walked[i].root, "vendor"))

InsideGodeps(i) == HasPrefix(walked[i].path, ReservedPrefix(walked[i].root, "Godeps") \o "/")
InsideVendor(i) == HasPrefix(walked[i].path, ReservedPrefix(walked[i].root, "vendor") \o "/")

SameFlags(call) ==
    call.skipGodeps = skipGodepsGlobal /\ call.skipVendor = skipVendorGlobal

\* C1: once a call has completed under a flag pair, a later call with the same
\* flag pair runs no analysis (no walk, no parse) and is served from the cached
\* result set, also when that result set holds no function.
C1_SameFlagsServedFromCache ==
    [][(lastCall.op # "none" /\ ~exited /\ SameFlags(lastCall) /\ SameFlags(lastCall'))
          => (/\ ~analyzed'
              /\ walked' = <<>>
              /\ parsed' = <<>>
              /\ SeqBag(statsGlobal') = SeqBag(statsGlobal))]_vars

\* C1 for the result sets that hold at least one function
C1_NonEmptyServedFromCache ==
    [][(lastCall.op # "none" /\ ~exited /\ SameFlags(lastCall') /\ statsGlobal # <<>>)
          => (/\ ~analyzed'
              /\ walked' = <<>>
              /\ parsed' = <<>>
              /\ SeqBag(statsGlobal') = SeqBag(statsGlobal))]_vars

\* C2: a call made with no cache, or with a flag pair other than the cached
\* one, rebuilds the result set from scratch under the requested flags (nothing
\* of the old set is carried over), and after every completed call the cached
\* flag pair is the flag pair of that call.
C2_RebuildUnderRequestedFlags ==
    [][~exited' =>
          /\ skipGodepsGlobal' = lastCall'.skipGodeps
          /\ skipVendorGlobal' = lastCall'.skipVendor
          /\ (statsGlobal = <<>> \/ ~SameFlags(lastCall'))
                => /\ analyzed'
                   /\ SeqBag(statsGlobal') =
                        SeqBag(analyze(lastCall'.paths, lastCall'.skipGodeps,
                                       lastCall'.skipVendor).stats)]_vars

C2_Witness ==
    /\ analyzed /\ ~exited
    /\ skipVendorGlobal /\ ~skipGodepsGlobal
    /\ statsGlobal # <<>>
    /\ \E i \in Discovered : UnderVendor(i) /\ Entry(i) \notin Range(parsed)
    /\ \E i \in Discovered : UnderGodeps(i) /\ Entry(i) \in Range(parsed)

\* C3: a file-system error reported during a directory walk is fatal to the
\* whole run: the call returns nothing and caches none of the measurements of
\* the files it visited.
C3_TraversalErrorIsFatal ==
    (\E i \in DOMAIN walked : walked[i].err)
        => /\ ret.kind = "none"
           /\ \A j \in DOMAIN statsGlobal :
                 statsGlobal[j].Pos.Filename \notin {parsed[k].path : k \in DOMAIN parsed}

\* C4: a parse failure on a candidate file ends the run at that file: no later
\* candidate is parsed, nothing is returned, and a run that completes has
\* parsed every candidate it selected.
C4_ParseFailureHalts ==
    /\ \A i \in DOMAIN parsed :
          ParseFile(parsed[i].path).err
              => exited /\ i = Len(parsed) /\ ret = NoRet
    /\ (analyzed /\ ~exited) =>
          /\ \A i \in DOMAIN lastCall.paths :
                ~isDir(lastCall.paths[i]) => ~ParseFile(lastCall.paths[i]).err
          /\ \A i \in Discovered :
                (/\ HasSuffix(walked[i].path, ".go")
                 /\ ~(skipGodepsGlobal /\ UnderGodeps(i))
                 /\ ~(skipVendorGlobal /\ UnderVendor(i)))
                    => ~ParseFile(walked[i].path).err

C4_Witness ==
    /\ exited
    /\ ret = NoRet
    /\ Len(parsed) >= 2
    /\ ParseFile(parsed[Len(parsed)].path).err
    /\ \E i \in DOMAIN lastCall.paths :
          [root |-> lastCall.paths[i], path |-> lastCall.paths[i]] \notin Range(parsed)
             /\ ~isDir(lastCall.paths[i])

\* C5: the sequence GetStats returns is sorted by descending complexity and is
\* a permutation of the measurements of the result set it is served from.
C5_SortedPermutation ==
    [][ret'.kind = "stats" =>
          /\ SortedDesc(ret'.stats)
          /\ ret'.stats = statsGlobal'
          /\ SeqBag(ret'.stats) =
                SeqBag(IF analyzed'
                       THEN analyze(lastCall'.paths, lastCall'.skipGodeps,
                                    lastCall'.skipVendor).stats
                       ELSE statsGlobal)]_vars

C5_Witness ==
    /\ ret.kind = "stats"
    /\ analyzed
    /\ Len(ret.stats) >= 3
    /\ ret.stats # analyze(lastCall.paths, lastCall.skipGodeps, lastCall.skipVendor).stats
    /\ \E i \in 1..(Len(ret.stats) - 1) : ret.stats[i].Complexity = ret.stats[i + 1].Complexity
    /\ \E i \in 1..(Len(ret.stats) - 1) : ret.stats[i].Complexity > ret.stats[i + 1].Complexity

\* C6: in a directory walk a discovered file whose path starts with
\* <root>/Godeps is excluded when skipGodeps is set, whatever skipVendor is,
\* and likewise for <root>/vendor and skipVendor; a .go file that neither check
\* excludes is analyzed, so a reserved directory whose flag is unset excludes
\* nothing.
C6_ExclusionPolicy ==
    \A i \in Discovered :
        /\ (skipGodepsGlobal /\ UnderGodeps(i)) => Entry(i) \notin Range(parsed)
        /\ (skipVendorGlobal /\ UnderVendor(i)) => Entry(i) \notin Range(parsed)
        /\ (/\ HasSuffix(walked[i].path, ".go")
            /\ ~(skipGodepsGlobal /\ UnderGodeps(i))
            /\ ~(skipVendorGlobal /\ UnderVendor(i)))
              => Entry(i) \in Range(parsed)

C6_Witness ==
    /\ skipGodepsGlobal /\ ~skipVendorGlobal
    /\ \E i \in Discovered :
          /\ walked[i].root = "."
          /\ UnderGodeps(i) /\ HasSuffix(walked[i].path, ".go")
          /\ Entry(i) \notin Range(parsed)
    /\ \E i \in Discovered : UnderVendor(i) /\ Entry(i) \in Range(parsed)

\* The nodes of a subtree, the root first
RECURSIVE Flatten(_), FlattenList(_)
Flatten(n) == <<n>> \o FlattenList(n.children)
FlattenList(list) ==
    IF list = <<>> THEN <<>> ELSE Flatten(Head(list)) \o FlattenList(Tail(list))

BranchKinds == {"IfStmt", "ForStmt", "RangeStmt", "CaseClause", "CommClause"}

CountKind(nodes, kinds) == Cardinality({i \in DOMAIN nodes : nodes[i].kind \in kinds})

CountLogic(nodes) ==
    Cardinality({i \in DOMAIN nodes :
                    nodes[i].kind = "BinaryExpr" /\ nodes[i].op \in {"&&", "||"}})

\* C7: the score of a function declaration is 1 plus the number of if, for,
\* range, case-clause and comm-clause nodes of its subtree plus the number of
\* && and || binary expressions, function literals included; so it is at least
\* 1, exactly 1 without such constructs, and 1 + N for N if statements alone.
C7_ScoreCountsBranchPoints ==
    score # 0 =>
        LET nodes == Flatten(fn) IN
        /\ score = 1 + CountKind(nodes, BranchKinds) + CountLogic(nodes)
        /\ score >= 1
        /\ (CountKind(nodes, BranchKinds) = 0 /\ CountLogic(nodes) = 0) => score = 1
        /\ (CountKind(nodes, BranchKinds \ {"IfStmt"}) = 0 /\ CountLogic(nodes) = 0)
              => score = 1 + CountKind(nodes, {"IfStmt"})

C7_Witness ==
    /\ score = 3
    /\ LET nodes == Flatten(fn) IN
       /\ CountKind(nodes, {"FuncLit"}) = 1
       /\ CountKind(nodes, {"IfStmt"}) = 1
       /\ CountLogic(nodes) = 1
       /\ CountKind(nodes, {"BinaryExpr"}) = 1

\* The i-th root of the last call was handed to the parser as it is
FileRootParsed(i) ==
    [root |-> lastCall.paths[i], path |-> lastCall.paths[i]] \in Range(parsed)

\* C8: a root that is not a directory is parsed as it is: neither the .go
\* suffix filter nor the Godeps/vendor checks apply to it.
C8_FileRootAlwaysParsed ==
    analyzed =>
        /\ ~isDir(lastCall.paths[1]) => FileRootParsed(1)
        /\ ~exited => \A i \in DOMAIN lastCall.paths :
                         ~isDir(lastCall.paths[i]) => FileRootParsed(i)
        /\ \A i \in DOMAIN parsed :
              parsed[i].root # parsed[i].path => HasSuffix(parsed[i].path, ".go")

C8_Witness ==
    /\ analyzed /\ ~exited
    /\ skipGodepsGlobal /\ skipVendorGlobal
    /\ \E i \in DOMAIN lastCall.paths :
          /\ ~isDir(lastCall.paths[i])
          /\ ~HasSuffix(lastCall.paths[i], ".go")
          /\ HasPrefix(lastCall.paths[i], "Godeps")
          /\ FileRootParsed(i)
    /\ ret.kind = "stats" /\ Len(ret.stats) = 1

\* C9: the result of a call is computed from the roots passed to that call.
C9_ResultFromOwnPaths ==
    LET own == analyze(lastCall.paths, lastCall.skipGodeps, lastCall.skipVendor).stats IN
    /\ ret.kind = "stats" => SeqBag(ret.stats) = SeqBag(own)
    /\ ret.kind = "average" => ret.total = total(own) /\ ret.count = Len(own)

\* C10: a skip flag excludes a discovered .go file only if the file lies inside
\* the reserved directory directly under the walked root; every other .go file
\* is analyzed.
C10_OnlyInsideReservedDir ==
    \A i \in Discovered :
        (/\ HasSuffix(walked[i].path, ".go")
         /\ ~(skipGodepsGlobal /\ InsideGodeps(i))
         /\ ~(skipVendorGlobal /\ InsideVendor(i)))
            => Entry(i) \in Range(parsed)

====
